---- MODULE Spec2Model ----
(***************************************************************************)
(* Tenant-scoped access control of EduERP: the thread-local tenant context *)
(* store (apps/core/utils/tenant.py), the permission / role / tenant /     *)
(* object mixins (apps/core/permissions/mixins.py) and the views that use  *)
(* them (apps/users/views.py, apps/hr/views.py, apps/admission/views.py).  *)
(***************************************************************************)
EXTENDS Integers, Sequences, FiniteSets, TLC

VARIABLES
    store,       \* _thread_locals.tenant of every execution context
    frames,      \* per context: the suspended tenant_context generators, innermost first
    raising,     \* per context: an exception is propagating
    lastStored,  \* history: the value the context itself stored last
    last,        \* history: the last tenant-store call of the context, what it returned or
                 \* left in the store (val) and what the caller expected of it (before)
    req,         \* per context: the tenant of the request being served, and of the one before
    ev,          \* the last evaluation of an access-control check: inputs and decision
    db,          \* the rows of the tenant-scoped tables
    session,     \* per context: request.user of the request being served
    resp         \* the response of the last view dispatch

tenantVars == <<store, frames, raising, lastStored, last>>
viewVars == <<db, session, resp>>
vars == <<store, frames, raising, lastStored, last, req, ev, db, session, resp>>

(***************************************************************************)
(* Values                                                                  *)
(***************************************************************************)
Contexts == {"c1", "c2"}
Tenants == {"T1", "T2"}
\* Python's None: the "no tenant" sentinel
NoTenant == "None"
\* the attribute `tenant` is absent from the thread-local object
Unset == "Unset"
TenantValues == Tenants \cup {NoTenant}
NoReq == "NoReq"

\* deepest nesting of tenant_context scopes explored
MaxDepth == 2

(***************************************************************************)
(* apps/core/utils/tenant.py                                               *)
(***************************************************************************)
\* a store shared by all threads instead of threading.local()
set_current_tenant_shared(s, c, tenant) == [x \in DOMAIN s |-> tenant]

set_current_tenant(s, c, tenant) == [s EXCEPT ![c] = tenant]

\* a default tenant handed out when nothing is stored
get_current_tenant_default(s, c) == IF s[c] = Unset THEN "T1" ELSE s[c]

get_current_tenant(s, c) == IF s[c] = Unset THEN NoTenant ELSE s[c]

\* the delattr left out
clear_tenant_keep(s, c) == s

clear_tenant(s, c) == IF s[c] # Unset THEN [s EXCEPT ![c] = Unset] ELSE s

\* old_tenant read after the override instead of before it
tenant_context_enter_late(s, c, tenant) ==
    [store |-> set_current_tenant(s, c, tenant),
     old_tenant |-> get_current_tenant(set_current_tenant(s, c, tenant), c)]

\* lines 37-38: the store after entering the scope, and the generator's local
tenant_context_enter(s, c, tenant) ==
    [store |-> set_current_tenant(s, c, tenant),
     old_tenant |-> get_current_tenant(s, c)]

\* no try/finally: the restore is skipped when the body raises
tenant_context_exit_nofinally(s, c, old_tenant, exc) ==
    IF exc THEN s ELSE set_current_tenant(s, c, old_tenant)

\* the exit resets the store to None instead of restoring the prior value
tenant_context_exit_reset(s, c, old_tenant, exc) == set_current_tenant(s, c, NoTenant)

\* lines 39-42: the finally clause runs on every exit path
tenant_context_exit(s, c, old_tenant, exc) == set_current_tenant(s, c, old_tenant)

Op(op, val, before, exc) == [op |-> op, val |-> val, before |-> before, exc |-> exc]

InBody(c) == frames[c] # <<>>

\* Code under src/ never calls set_current_tenant / clear_tenant while it serves a
\* request: the views only read the store, overrides go through tenant_context.
MayStore(c) == ~raising[c] /\ (req[c].tenant = NoReq \/ InBody(c))

CallSetCurrentTenant(c, t) ==
    /\ MayStore(c)
    /\ store' = set_current_tenant(store, c, t)
    /\ lastStored' = [lastStored EXCEPT ![c] = t]
    /\ last' = [last EXCEPT ![c] = Op("set", t, t, FALSE)]
    /\ UNCHANGED <<frames, raising, req, ev, db, session, resp>>

CallGetCurrentTenant(c) ==
    /\ ~raising[c]
    /\ last' = [last EXCEPT ![c] =
                  Op("get", get_current_tenant(store, c), get_current_tenant(store, c), FALSE)]
    /\ UNCHANGED <<store, frames, raising, lastStored, req, ev, db, session, resp>>

CallClearTenant(c) ==
    /\ MayStore(c)
    /\ store' = clear_tenant(store, c)
    /\ lastStored' = [lastStored EXCEPT ![c] = NoTenant]
    /\ last' = [last EXCEPT ![c] =
                  Op("clear", get_current_tenant(store', c), get_current_tenant(store', c), FALSE)]
    /\ UNCHANGED <<frames, raising, req, ev, db, session, resp>>

\* with tenant_context(t): ... -- up to the yield
TenantContextEnter(c, t) ==
    /\ ~raising[c]
    /\ Len(frames[c]) < MaxDepth
    /\ LET e == tenant_context_enter(store, c, t) IN
        /\ store' = e.store
        /\ frames' = [frames EXCEPT ![c] =
                        <<[old_tenant |-> e.old_tenant,
                           before |-> get_current_tenant(store, c)]>> \o @]
    /\ lastStored' = [lastStored EXCEPT ![c] = t]
    /\ last' = [last EXCEPT ![c] = Op("enter", get_current_tenant(store', c), t, FALSE)]
    /\ UNCHANGED <<raising, req, ev, db, session, resp>>

\* the body of the innermost scope fails
Raise(c) ==
    /\ InBody(c)
    /\ ~raising[c]
    /\ raising' = [raising EXCEPT ![c] = TRUE]
    /\ UNCHANGED <<store, frames, lastStored, last, req, ev, db, session, resp>>

\* the innermost scope is left, by the end of its body or by the exception
TenantContextExit(c) ==
    /\ InBody(c)
    /\ LET f == Head(frames[c]) IN
        /\ store' = tenant_context_exit(store, c, f.old_tenant, raising[c])
        /\ lastStored' = [lastStored EXCEPT ![c] = f.old_tenant]
        /\ last' = [last EXCEPT ![c] =
                      Op("exit", get_current_tenant(store', c), f.before, raising[c])]
    /\ frames' = [frames EXCEPT ![c] = Tail(@)]
    /\ UNCHANGED <<raising, req, ev, db, session, resp>>

\* an except clause of the caller (outside a request: the top of the thread) handles it
Catch(c) ==
    /\ raising[c]
    /\ req[c].tenant = NoReq \/ InBody(c)
    /\ raising' = [raising EXCEPT ![c] = FALSE]
    /\ UNCHANGED <<store, frames, lastStored, last, req, ev, db, session, resp>>

ThreadStep(c) ==
    \/ \E t \in TenantValues : CallSetCurrentTenant(c, t)
    \/ CallGetCurrentTenant(c)
    \/ CallClearTenant(c)
    \/ \E t \in TenantValues : TenantContextEnter(c, t)
    \/ Raise(c)
    \/ TenantContextExit(c)
    \/ Catch(c)

(***************************************************************************)
(* Python values of the class attributes that declare a requirement        *)
(***************************************************************************)
PyNone == [kind |-> "none", s |-> "", l |-> <<>>, n |-> 0]
PyStr(x) == [kind |-> "str", s |-> x, l |-> <<>>, n |-> 0]
PyList(q) == [kind |-> "list", s |-> "", l |-> q, n |-> 0]
PyInt(i) == [kind |-> "int", s |-> "", l |-> <<>>, n |-> i]

\* `if value:` -- None, "", [] and 0 are false
Truthy(v) ==
    \/ v.kind = "str" /\ v.s # ""
    \/ v.kind = "list" /\ Len(v.l) > 0
    \/ v.kind = "int" /\ v.n # 0

Range(q) == {q[i] : i \in DOMAIN q}

\* user.has_perm(perm): the permission strings the auth backends grant the user
HasPerm(user, perm) == perm \in user.perms

\* user.has_perm(perm, obj): the object-level grants of the user
HasObjPerm(user, perm, obj) == <<perm, obj.pk>> \in user.obj_perms

\* apps.users.models.ROLE_HIERARCHY: role -> level, super-admin highest
ROLE_HIERARCHY ==
    [r \in {"super_admin", "admin", "staff", "teacher", "student", "guardian"} |->
        CASE r = "super_admin" -> 6
          [] r = "admin" -> 5
          [] r = "staff" -> 4
          [] r = "teacher" -> 3
          [] r = "student" -> 2
          [] r = "guardian" -> 1]

\* ROLE_HIERARCHY.get(role, 0)
RoleLevel(role) == IF role \in DOMAIN ROLE_HIERARCHY THEN ROLE_HIERARCHY[role] ELSE 0

(***************************************************************************)
(* apps/core/permissions/mixins.py                                         *)
(***************************************************************************)
\* a list of permissions read as a disjunction
PermissionRequirement_anyof(user, view) ==
    IF Truthy(view.permission_required) /\ view.permission_required.kind = "str"
    THEN HasPerm(user, view.permission_required.s)
    ELSE IF Truthy(view.permission_required) /\ view.permission_required.kind = "list"
    THEN \E perm \in Range(view.permission_required.l) : HasPerm(user, perm)
    ELSE IF Truthy(view.permission_required_any)
    THEN \E perm \in Range(view.permission_required_any.l) : HasPerm(user, perm)
    ELSE TRUE

\* permission_required_any looked at before permission_required
PermissionRequirement_anyfirst(user, view) ==
    IF Truthy(view.permission_required_any)
    THEN \E perm \in Range(view.permission_required_any.l) : HasPerm(user, perm)
    ELSE IF Truthy(view.permission_required) /\ view.permission_required.kind = "str"
    THEN HasPerm(user, view.permission_required.s)
    ELSE IF Truthy(view.permission_required) /\ view.permission_required.kind = "list"
    THEN \A perm \in Range(view.permission_required.l) : HasPerm(user, perm)
    ELSE TRUE

\* the declared permission requirement alone, lines 34-45
PermissionRequirement(user, view) ==
    IF Truthy(view.permission_required) /\ view.permission_required.kind = "str"
    THEN HasPerm(user, view.permission_required.s)
    ELSE IF Truthy(view.permission_required) /\ view.permission_required.kind = "list"
    THEN \A perm \in Range(view.permission_required.l) : HasPerm(user, perm)
    ELSE IF Truthy(view.permission_required_any)
    THEN \E perm \in Range(view.permission_required_any.l) : HasPerm(user, perm)
    ELSE TRUE

\* the superuser bypass tested before the authentication
PermissionRequiredMixin_has_permission_sufirst(user, view) ==
    IF user.is_superuser THEN TRUE
    ELSE IF ~user.is_authenticated THEN FALSE
    ELSE PermissionRequirement(user, view)

PermissionRequiredMixin_has_permission(user, view) ==
    IF ~user.is_authenticated THEN FALSE
    ELSE IF user.is_superuser THEN TRUE
    ELSE PermissionRequirement(user, view)

\* min_role_level looked at before the role sets
RoleRequiredMixin_has_role_permission_levelfirst(user, view) ==
    IF ~user.is_authenticated THEN FALSE
    ELSE IF user.is_superuser THEN TRUE
    ELSE IF Truthy(view.min_role_level)
    THEN RoleLevel(user.role) >= view.min_role_level.n
    ELSE IF Truthy(view.roles_required) /\ view.roles_required.kind = "str"
    THEN user.role = view.roles_required.s
    ELSE IF Truthy(view.roles_required) /\ view.roles_required.kind = "list"
    THEN user.role \in Range(view.roles_required.l)
    ELSE IF Truthy(view.roles_required_any)
    THEN user.role \in Range(view.roles_required_any.l)
    ELSE TRUE

\* a list in roles_required read as a conjunction over the single role of the user
RoleRequiredMixin_has_role_permission_conjunction(user, view) ==
    IF ~user.is_authenticated THEN FALSE
    ELSE IF user.is_superuser THEN TRUE
    ELSE IF Truthy(view.roles_required) /\ view.roles_required.kind = "str"
    THEN user.role = view.roles_required.s
    ELSE IF Truthy(view.roles_required) /\ view.roles_required.kind = "list"
    THEN \A role \in Range(view.roles_required.l) : user.role = role
    ELSE IF Truthy(view.roles_required_any)
    THEN user.role \in Range(view.roles_required_any.l)
    ELSE IF Truthy(view.min_role_level)
    THEN RoleLevel(user.role) >= view.min_role_level.n
    ELSE TRUE

\* nothing declared: deny
RoleRequiredMixin_has_role_permission_defaultdeny(user, view) ==
    IF ~user.is_authenticated THEN FALSE
    ELSE IF user.is_superuser THEN TRUE
    ELSE IF Truthy(view.roles_required) /\ view.roles_required.kind = "str"
    THEN user.role = view.roles_required.s
    ELSE IF Truthy(view.roles_required) /\ view.roles_required.kind = "list"
    THEN user.role \in Range(view.roles_required.l)
    ELSE IF Truthy(view.roles_required_any)
    THEN user.role \in Range(view.roles_required_any.l)
    ELSE IF Truthy(view.min_role_level)
    THEN RoleLevel(user.role) >= view.min_role_level.n
    ELSE FALSE

\* > in place of >=
RoleRequiredMixin_has_role_permission_strict(user, view) ==
    IF ~user.is_authenticated THEN FALSE
    ELSE IF user.is_superuser THEN TRUE
    ELSE IF Truthy(view.roles_required) /\ view.roles_required.kind = "str"
    THEN user.role = view.roles_required.s
    ELSE IF Truthy(view.roles_required) /\ view.roles_required.kind = "list"
    THEN user.role \in Range(view.roles_required.l)
    ELSE IF Truthy(view.roles_required_any)
    THEN user.role \in Range(view.roles_required_any.l)
    ELSE IF Truthy(view.min_role_level)
    THEN RoleLevel(user.role) > view.min_role_level.n
    ELSE TRUE

RoleRequiredMixin_has_role_permission(user, view) ==
    IF ~user.is_authenticated THEN FALSE
    ELSE IF user.is_superuser THEN TRUE
    ELSE IF Truthy(view.roles_required) /\ view.roles_required.kind = "str"
    THEN user.role = view.roles_required.s
    ELSE IF Truthy(view.roles_required) /\ view.roles_required.kind = "list"
    THEN user.role \in Range(view.roles_required.l)
    ELSE IF Truthy(view.roles_required_any)
    THEN user.role \in Range(view.roles_required_any.l)
    ELSE IF Truthy(view.min_role_level)
    THEN RoleLevel(user.role) >= view.min_role_level.n
    ELSE TRUE

\* either check suffices
RoleBasedViewMixin_has_permission_either(user, view) ==
    \/ RoleRequiredMixin_has_role_permission(user, view)
    \/ PermissionRequiredMixin_has_permission(user, view)

RoleBasedViewMixin_has_permission(user, view) ==
    IF ~RoleRequiredMixin_has_role_permission(user, view) THEN FALSE
    ELSE PermissionRequiredMixin_has_permission(user, view)

\* the outcome of a dispatch that got past every check
Handler == "handler"
Forbidden == "Forbidden"
NotFound == "NotFound"

\* allow_superuser ignored: superusers always get every row
TenantAccessMixin_get_queryset_anysuperuser(user, view, queryset) ==
    IF user.is_superuser THEN queryset
    ELSE {r \in queryset : r.tenant = user.tenant}

\* allow_superuser ignored: superusers are filtered like everybody else
TenantAccessMixin_get_queryset_nobypass(user, view, queryset) ==
    {r \in queryset : r.tenant = user.tenant}

TenantAccessMixin_get_queryset(user, view, queryset) ==
    IF user.is_superuser /\ view.allow_superuser THEN queryset
    ELSE {r \in queryset : r.tenant = user.tenant}

\* get_object raising Http404 instead of returning an object
Http404 == [raised |-> NotFound]

\* the tenant of the object never compared
TenantAccessMixin_get_object_unchecked(user, view, obj) == obj

\* super().get_object() has found obj
TenantAccessMixin_get_object(user, view, obj) ==
    IF user.is_superuser /\ view.allow_superuser THEN obj
    ELSE IF obj.tenant # user.tenant THEN Http404
    ELSE obj

\* the ownership test dropped: only superusers and explicit grants pass
ObjectPermissionMixin_has_object_permission_noowner(user, view, obj) ==
    IF user.is_superuser THEN TRUE
    ELSE IF Truthy(view.object_permission_required)
    THEN HasObjPerm(user, view.object_permission_required.s, obj)
    ELSE FALSE

ObjectPermissionMixin_has_object_permission(user, view, obj) ==
    IF user.is_superuser THEN TRUE
    ELSE IF Truthy(view.object_permission_required)
    THEN HasObjPerm(user, view.object_permission_required.s, obj)
    ELSE obj.user = user.id \/ obj.created_by = user.id

\* the denial reported as a missing object
ObjectPermissionMixin_dispatch_hidden(user, view, obj) ==
    IF ~ObjectPermissionMixin_has_object_permission(user, view, obj) THEN NotFound
    ELSE Handler

\* get_object() has found obj (a missing object is an Http404 before the check)
ObjectPermissionMixin_dispatch(user, view, obj) ==
    IF ~ObjectPermissionMixin_has_object_permission(user, view, obj) THEN Forbidden
    ELSE Handler

(***************************************************************************)
(* Evaluation of the checks over bounded principals and requirements       *)
(***************************************************************************)
\* the highest min_role_level a view declares here: one above the top of the hierarchy
MaxMinRoleLevel == 7

EvalRoles == DOMAIN ROLE_HIERARCHY \cup {"visitor"}
EvalPerms == {"view_x", "change_x"}
UserIds == {"u1", "u2"}

User(auth, su, role, perms, id, tenant, objPerms) ==
    [is_authenticated |-> auth, is_superuser |-> su, role |-> role, perms |-> perms,
     id |-> id, tenant |-> tenant, obj_perms |-> objPerms]

\* the class attributes as the mixins declare them
DefaultView ==
    [permission_required |-> PyNone, permission_required_any |-> PyNone,
     roles_required |-> PyNone, roles_required_any |-> PyNone,
     min_role_level |-> PyNone, allow_superuser |-> TRUE,
     object_permission_required |-> PyNone, raise_exception |-> TRUE,
     mixins |-> {"PermissionRequiredMixin"}]

NoObject == [pk |-> "none", tenant |-> NoTenant, user |-> "None", created_by |-> "None"]

PermissionRequiredValues ==
    {PyNone, PyStr(""), PyStr("view_x"), PyList(<<>>), PyList(<<"view_x", "change_x">>)}
PermissionRequiredAnyValues == {PyNone, PyList(<<>>), PyList(<<"view_x", "change_x">>)}
RolesRequiredValues ==
    {PyNone, PyStr(""), PyStr("admin"), PyList(<<>>), PyList(<<"admin", "staff">>)}
RolesRequiredAnyValues == {PyNone, PyList(<<>>), PyList(<<"staff", "teacher">>)}
MinRoleLevelValues == {PyNone} \cup {PyInt(i) : i \in 0..MaxMinRoleLevel}

EvalUsers ==
    {User(a, su, r, p, "u1", "T1", {}) :
        a \in BOOLEAN, su \in BOOLEAN, r \in EvalRoles, p \in SUBSET EvalPerms}

PermViews ==
    {[DefaultView EXCEPT !.permission_required = a, !.permission_required_any = b] :
        a \in PermissionRequiredValues, b \in PermissionRequiredAnyValues}

RoleViews ==
    {[DefaultView EXCEPT !.roles_required = a, !.roles_required_any = b, !.min_role_level = m] :
        a \in RolesRequiredValues, b \in RolesRequiredAnyValues, m \in MinRoleLevelValues}

\* RoleBasedViewMixin: a role requirement of one form together with a permission requirement
RoleBasedViews ==
    {[v EXCEPT !.permission_required = a, !.permission_required_any = b] :
        v \in {w \in RoleViews :
                 Cardinality({x \in {w.roles_required, w.roles_required_any, w.min_role_level} :
                                x # PyNone}) <= 1},
        a \in PermissionRequiredValues, b \in PermissionRequiredAnyValues}

ObjectUsers ==
    {User(a, su, "staff", {}, "u1", "T1", g) :
        a \in BOOLEAN, su \in BOOLEAN, g \in SUBSET {<<"change_x", "o1">>}}
ObjectViews ==
    {[DefaultView EXCEPT !.object_permission_required = a] : a \in {PyNone, PyStr("change_x")}}
EvalObjects ==
    {[pk |-> "o1", tenant |-> "T1", user |-> o, created_by |-> cb] :
        o \in UserIds \cup {"None"}, cb \in UserIds \cup {"None"}}

TenantUsers ==
    {User(TRUE, su, "staff", {}, "u1", t, {}) : su \in BOOLEAN, t \in TenantValues}
TenantViews == {[DefaultView EXCEPT !.allow_superuser = a] : a \in BOOLEAN}
EvalRows ==
    {[pk |-> "o1", tenant |-> "T1", user |-> "u1", created_by |-> "None"],
     [pk |-> "o2", tenant |-> "T2", user |-> "u2", created_by |-> "None"],
     [pk |-> "o3", tenant |-> NoTenant, user |-> "None", created_by |-> "None"]}

\* an evaluation: the check, its inputs, and once it has run (done) its result
Evaluation(fn, user, view, obj) ==
    [fn |-> fn, user |-> user, view |-> view, obj |-> obj, done |-> FALSE, result |-> FALSE]

NoEvaluation ==
    Evaluation("none", User(FALSE, FALSE, "visitor", {}, "u1", NoTenant, {}),
               DefaultView, NoObject)

\* the evaluations to run: every check on every principal and requirement
IsEvalInput(e) ==
    \/ \E user \in TenantUsers, view \in TenantViews :
         e = Evaluation("TenantAccessMixin.get_queryset", user, view, NoObject)
    \/ \E user \in TenantUsers, view \in TenantViews, obj \in EvalRows :
         e = Evaluation("TenantAccessMixin.get_object", user, view, obj)
    \/ \E fn \in {"has_object_permission", "ObjectPermissionMixin.dispatch"},
          user \in ObjectUsers, view \in ObjectViews, obj \in EvalObjects :
         e = Evaluation(fn, user, view, obj)
    \/ \E user \in EvalUsers, view \in PermViews :
         e = Evaluation("has_permission", user, view, NoObject)
    \/ \E user \in EvalUsers, view \in RoleViews :
         e = Evaluation("has_role_permission", user, view, NoObject)
    \/ \E user \in EvalUsers, view \in RoleBasedViews :
         e = Evaluation("RoleBasedViewMixin.has_permission", user, view, NoObject)
    \/ \E user \in EvalUsers, view \in PermViews, raise \in BOOLEAN :
         e = Evaluation("PermissionRequiredMixin.dispatch", user,
                        [view EXCEPT !.raise_exception = raise], NoObject)
    \/ \E user \in EvalUsers, view \in RoleViews, raise \in BOOLEAN :
         e = Evaluation("RoleRequiredMixin.dispatch", user,
                        [view EXCEPT !.raise_exception = raise], NoObject)
    \/ \E user \in EvalUsers, view \in RoleBasedViews, raise \in BOOLEAN :
         e = Evaluation("RoleBasedViewMixin.dispatch", user,
                        [view EXCEPT !.raise_exception = raise], NoObject)

Pending(fn) == ev.fn = fn /\ ~ev.done

\* a check that uses up the permissions of the principal it looks at
Evaluated_consuming(result) ==
    /\ ev' = [ev EXCEPT !.done = TRUE, !.result = result, !.user.perms = {}]
    /\ UNCHANGED <<store, frames, raising, lastStored, last, req, db, session, resp>>

Evaluated(result) ==
    /\ ev' = [ev EXCEPT !.done = TRUE, !.result = result]
    /\ UNCHANGED <<store, frames, raising, lastStored, last, req, db, session, resp>>

EvalHasPermission ==
    /\ Pending("has_permission")
    /\ Evaluated(PermissionRequiredMixin_has_permission(ev.user, ev.view))

EvalHasRolePermission ==
    /\ Pending("has_role_permission")
    /\ Evaluated(RoleRequiredMixin_has_role_permission(ev.user, ev.view))

EvalRoleBasedHasPermission ==
    /\ Pending("RoleBasedViewMixin.has_permission")
    /\ Evaluated(RoleBasedViewMixin_has_permission(ev.user, ev.view))

EvalHasObjectPermission ==
    /\ Pending("has_object_permission")
    /\ Evaluated(ObjectPermissionMixin_has_object_permission(ev.user, ev.view, ev.obj))

EvalObjectDispatch ==
    /\ Pending("ObjectPermissionMixin.dispatch")
    /\ Evaluated(ObjectPermissionMixin_dispatch(ev.user, ev.view, ev.obj))

EvalTenantGetQueryset ==
    /\ Pending("TenantAccessMixin.get_queryset")
    /\ Evaluated(TenantAccessMixin_get_queryset(ev.user, ev.view, EvalRows))

EvalTenantGetObject ==
    /\ Pending("TenantAccessMixin.get_object")
    /\ Evaluated(TenantAccessMixin_get_object(ev.user, ev.view, ev.obj))

(***************************************************************************)
(* The tenant-scoped tables and the principals of the requests             *)
(***************************************************************************)
Models == {"User", "Staff", "OnlineApplication"}
Pks == {1, 2, 3}

\* a table of one row per tenant and one row that has no tenant
Table(model) ==
    [model |-> model,
     rows |-> [pk \in Pks |->
                 [pk |-> pk,
                  tenant |-> CASE pk = 1 -> "T1" [] pk = 2 -> "T2" [] OTHER -> NoTenant,
                  is_active |-> TRUE,
                  exists |-> TRUE]]]

\* Model.objects.all()
AllObjects(table) == {table.rows[pk] : pk \in {k \in Pks : table.rows[k].exists}}

\* request.user of a request without a session: django's AnonymousUser
AnonymousUser == User(FALSE, FALSE, "visitor", {}, "anonymous", NoTenant, {})

UserPerms == {"users.view_user", "users.change_user", "users.delete_user"}
StaffPerms == {"hr.view_staff", "hr.change_staff", "hr.delete_staff"}

\* the users that log in: of either tenant or of none, with or without the model permissions
RequestUsers ==
    {AnonymousUser} \cup
    {User(TRUE, su, "staff", perms, "u1", t, {}) :
        su \in BOOLEAN, t \in TenantValues,
        perms \in {{}, {"users.view_user", "hr.view_staff"}, UserPerms \cup StaffPerms}}

Response(view, status, observed, mutated) ==
    [view |-> view, status |-> status, observed |-> observed, mutated |-> mutated]

NoResponse == Response("none", "none", {}, {})

(***************************************************************************)
(* The views: apps/users/views.py, apps/hr/views.py, apps/admission/views.py *)
(***************************************************************************)
LoginRedirect == "LoginRedirect"
ServerError == "ServerError"
Ok == "ok"

\* every denial answered with the redirect to the login page
AccessMixin_handle_no_permission_redirect(user, view) == LoginRedirect

\* django's AccessMixin.handle_no_permission, called at mixins.py line 51
AccessMixin_handle_no_permission(user, view) ==
    IF view.raise_exception \/ user.is_authenticated THEN Forbidden ELSE LoginRedirect

PermissionRequiredMixin_dispatch(user, view) ==
    IF ~PermissionRequiredMixin_has_permission(user, view)
    THEN IF view.raise_exception THEN Forbidden
         ELSE AccessMixin_handle_no_permission(user, view)
    ELSE Handler

\* the handler entered although the check failed, unless raise_exception is set
RoleRequiredMixin_dispatch_unguarded(user, view) ==
    IF ~RoleRequiredMixin_has_role_permission(user, view) /\ view.raise_exception
    THEN Forbidden
    ELSE Handler

\* lines 94-99
RoleRequiredMixin_dispatch(user, view) ==
    IF ~RoleRequiredMixin_has_role_permission(user, view)
    THEN IF view.raise_exception THEN Forbidden
         ELSE AccessMixin_handle_no_permission(user, view)
    ELSE Handler

\* class RoleBasedViewMixin(PermissionRequiredMixin, RoleRequiredMixin): the dispatch
\* of PermissionRequiredMixin with the has_permission of RoleBasedViewMixin, whose
\* super().dispatch is the dispatch of RoleRequiredMixin
RoleBasedViewMixin_dispatch(user, view) ==
    IF ~RoleBasedViewMixin_has_permission(user, view)
    THEN IF view.raise_exception THEN Forbidden
         ELSE AccessMixin_handle_no_permission(user, view)
    ELSE RoleRequiredMixin_dispatch(user, view)

EvalPermissionDispatch ==
    /\ Pending("PermissionRequiredMixin.dispatch")
    /\ Evaluated(PermissionRequiredMixin_dispatch(ev.user, ev.view))

EvalRoleDispatch ==
    /\ Pending("RoleRequiredMixin.dispatch")
    /\ Evaluated(RoleRequiredMixin_dispatch(ev.user, ev.view))

EvalRoleBasedDispatch ==
    /\ Pending("RoleBasedViewMixin.dispatch")
    /\ Evaluated(RoleBasedViewMixin_dispatch(ev.user, ev.view))

\* the dispatch chain of a view class, in the order of its bases
ViewDispatch(user, view) ==
    IF "LoginRequiredMixin" \in view.mixins /\ ~user.is_authenticated
    THEN AccessMixin_handle_no_permission(user, view)
    ELSE IF "PermissionRequiredMixin" \in view.mixins
    THEN PermissionRequiredMixin_dispatch(user, view)
    ELSE Handler

\* class X(LoginRequiredMixin, PermissionRequiredMixin, ...): permission_required = perm
PermissionView(perm) ==
    [DefaultView EXCEPT !.permission_required = PyStr(perm),
                        !.mixins = {"LoginRequiredMixin", "PermissionRequiredMixin"}]

\* class X(LoginRequiredMixin, ...): raise_exception is AccessMixin's False
LoginView == [DefaultView EXCEPT !.raise_exception = FALSE, !.mixins = {"LoginRequiredMixin"}]

\* the filter left out
UserListView_get_queryset_unfiltered(s, c, queryset) == queryset

UserListView_get_queryset(s, c, queryset) ==
    {r \in queryset : r.tenant = get_current_tenant(s, c)}

\* AdmissionListView.get_queryset without status or search parameters
AdmissionListView_get_queryset(hasTenantAttr, requestTenant, queryset) ==
    IF hasTenantAttr THEN {r \in queryset : r.tenant = requestTenant} ELSE queryset

\* SingleObjectMixin.get_object / get_object_or_404: the row of the queryset with
\* this pk, or Http404
GetObject(queryset, pk) ==
    IF \E r \in queryset : r.pk = pk THEN CHOOSE r \in queryset : r.pk = pk ELSE Http404

Outcome(status, observed, mutated, rows) ==
    [status |-> status, observed |-> observed, mutated |-> mutated, rows |-> rows]

\* a ListView: the queryset is rendered
ListOutcome(queryset) == Outcome(Ok, queryset, {}, db.rows)

\* a DetailView: the object is rendered
DetailOutcome(obj) ==
    IF obj = Http404 THEN Outcome(NotFound, {}, {}, db.rows)
    ELSE Outcome(Ok, {obj}, {}, db.rows)

\* an UpdateView whose form is valid: the object is saved with the submitted fields
UpdateOutcome(obj, is_active) ==
    IF obj = Http404 THEN Outcome(NotFound, {}, {}, db.rows)
    ELSE Outcome(Ok, {obj}, {obj}, [db.rows EXCEPT ![obj.pk].is_active = is_active])

\* a DeleteView: the object is deleted
DeleteOutcome(obj) ==
    IF obj = Http404 THEN Outcome(NotFound, {}, {}, db.rows)
    ELSE Outcome(Ok, {obj}, {obj}, [db.rows EXCEPT ![obj.pk].exists = FALSE])

\* one view serves the request of context c on the table it is declared for
Serve(c, name, model, view, outcome) ==
    /\ req[c].tenant # NoReq
    /\ resp = NoResponse
    /\ db.model \in model
    /\ LET gate == ViewDispatch(session[c], view) IN
         IF gate # Handler
         THEN /\ resp' = Response(name, gate, {}, {})
              /\ db' = db
         ELSE /\ resp' = Response(name, outcome.status, outcome.observed, outcome.mutated)
              /\ db' = [db EXCEPT !.rows = outcome.rows]
    /\ UNCHANGED <<store, frames, raising, lastStored, last, req, ev, session>>

UserListView(c) ==
    Serve(c, "UserListView", {"User"}, PermissionView("users.view_user"),
          ListOutcome(UserListView_get_queryset(store, c, AllObjects(db))))

UserDetailView(c, pk) ==
    Serve(c, "UserDetailView", {"User"}, PermissionView("users.view_user"),
          DetailOutcome(GetObject(AllObjects(db), pk)))

UserUpdateView(c, pk, is_active) ==
    Serve(c, "UserUpdateView", {"User"}, PermissionView("users.change_user"),
          UpdateOutcome(GetObject(AllObjects(db), pk), is_active))

UserDeleteView(c, pk) ==
    Serve(c, "UserDeleteView", {"User"}, PermissionView("users.delete_user"),
          DeleteOutcome(GetObject(AllObjects(db), pk)))

ToggleUserStatusView(c, pk) ==
    Serve(c, "ToggleUserStatusView", {"User"}, PermissionView("users.change_user"),
          LET user == GetObject(UserListView_get_queryset(store, c, AllObjects(db)), pk) IN
            IF user = Http404 THEN Outcome(NotFound, {}, {}, db.rows)
            ELSE UpdateOutcome(user, ~user.is_active))

StaffListView(c) ==
    Serve(c, "StaffListView", {"Staff"}, PermissionView("hr.view_staff"),
          ListOutcome(AllObjects(db)))

StaffDetailView(c, pk) ==
    Serve(c, "StaffDetailView", {"Staff"}, PermissionView("hr.view_staff"),
          DetailOutcome(GetObject(AllObjects(db), pk)))

StaffUpdateView(c, pk, is_active) ==
    Serve(c, "StaffUpdateView", {"Staff"}, PermissionView("hr.change_staff"),
          UpdateOutcome(GetObject(AllObjects(db), pk), is_active))

StaffDeleteView(c, pk) ==
    Serve(c, "StaffDeleteView", {"Staff"}, PermissionView("hr.delete_staff"),
          DeleteOutcome(GetObject(AllObjects(db), pk)))

\* hasTenantAttr: whether the middleware of the deployment sets request.tenant
AdmissionListView(c, hasTenantAttr) ==
    Serve(c, "AdmissionListView", {"OnlineApplication"}, LoginView,
          ListOutcome(AdmissionListView_get_queryset(hasTenantAttr, req[c].tenant,
                                                     AllObjects(db))))

AdmissionDetailView(c, pk) ==
    Serve(c, "AdmissionDetailView", {"OnlineApplication"}, LoginView,
          DetailOutcome(GetObject(AllObjects(db), pk)))

AdmissionUpdateView(c, pk, is_active) ==
    Serve(c, "AdmissionUpdateView", {"OnlineApplication"}, LoginView,
          UpdateOutcome(GetObject(AllObjects(db), pk), is_active))

AdmissionDeleteView(c, pk) ==
    Serve(c, "AdmissionDeleteView", {"OnlineApplication"}, LoginView,
          DeleteOutcome(GetObject(AllObjects(db), pk)))

\* a ListView that takes its queryset from TenantAccessMixin; request.user.tenant
\* of an AnonymousUser is an AttributeError
TenantAccessListView(c, allow_superuser) ==
    Serve(c, "TenantAccessMixin.get_queryset", Models,
          [DefaultView EXCEPT !.allow_superuser = allow_superuser, !.mixins = {}],
          IF ~session[c].is_authenticated THEN Outcome(ServerError, {}, {}, db.rows)
          ELSE ListOutcome(TenantAccessMixin_get_queryset(
                   session[c], [DefaultView EXCEPT !.allow_superuser = allow_superuser],
                   AllObjects(db))))

\* a DetailView that takes its object from TenantAccessMixin; request.user.tenant
\* of an AnonymousUser is an AttributeError
TenantAccessDetailView(c, pk, allow_superuser) ==
    Serve(c, "TenantAccessMixin.get_object", Models,
          [DefaultView EXCEPT !.allow_superuser = allow_superuser, !.mixins = {}],
          LET obj == GetObject(AllObjects(db), pk) IN
            IF obj = Http404 THEN DetailOutcome(Http404)
            ELSE IF ~session[c].is_authenticated THEN Outcome(ServerError, {}, {}, db.rows)
            ELSE DetailOutcome(TenantAccessMixin_get_object(
                     session[c], [DefaultView EXCEPT !.allow_superuser = allow_superuser],
                     obj)))

ViewStep(c) ==
    \/ UserListView(c)
    \/ \E pk \in Pks : UserDetailView(c, pk)
    \/ \E pk \in Pks, b \in BOOLEAN : UserUpdateView(c, pk, b)
    \/ \E pk \in Pks : UserDeleteView(c, pk)
    \/ \E pk \in Pks : ToggleUserStatusView(c, pk)
    \/ StaffListView(c)
    \/ \E pk \in Pks : StaffDetailView(c, pk)
    \/ \E pk \in Pks, b \in BOOLEAN : StaffUpdateView(c, pk, b)
    \/ \E pk \in Pks : StaffDeleteView(c, pk)
    \/ \E b \in BOOLEAN : AdmissionListView(c, b)
    \/ \E pk \in Pks : AdmissionDetailView(c, pk)
    \/ \E pk \in Pks, b \in BOOLEAN : AdmissionUpdateView(c, pk, b)
    \/ \E pk \in Pks : AdmissionDeleteView(c, pk)
    \/ \E b \in BOOLEAN : TenantAccessListView(c, b)
    \/ \E pk \in Pks, b \in BOOLEAN : TenantAccessDetailView(c, pk, b)

(***************************************************************************)
(* The request middleware (spec.md section 6): set_current_tenant(tenant)  *)
(* when a request starts on a worker, clear_tenant() at its teardown.      *)
(***************************************************************************)
RequestStart(c, t, user) ==
    /\ req[c].tenant = NoReq
    /\ ~InBody(c)
    /\ ~raising[c]
    /\ store' = set_current_tenant(store, c, t)
    /\ lastStored' = [lastStored EXCEPT ![c] = t]
    /\ last' = [last EXCEPT ![c] = Op("start", get_current_tenant(store', c), t, FALSE)]
    /\ req' = [req EXCEPT ![c].tenant = t]
    /\ session' = [session EXCEPT ![c] = user]
    /\ UNCHANGED <<frames, raising, ev, db, resp>>

\* the teardown runs when the handler has returned or failed: every scope it opened is left
RequestEnd(c) ==
    /\ req[c].tenant # NoReq
    /\ ~InBody(c)
    /\ store' = clear_tenant(store, c)
    /\ lastStored' = [lastStored EXCEPT ![c] = NoTenant]
    /\ last' = [last EXCEPT ![c] =
                  Op("teardown", get_current_tenant(store', c), NoTenant, raising[c])]
    /\ raising' = [raising EXCEPT ![c] = FALSE]
    /\ req' = [req EXCEPT ![c] = [tenant |-> NoReq, prev |-> req[c].tenant]]
    /\ session' = [session EXCEPT ![c] = AnonymousUser]
    /\ resp' = NoResponse
    /\ UNCHANGED <<frames, ev, db>>

\* the pooled worker whose reuse is followed
Worker == "c1"

(***************************************************************************)
(* Initial state                                                           *)
(***************************************************************************)
InitTenant ==
    /\ store = [c \in Contexts |-> Unset]
    /\ frames = [c \in Contexts |-> <<>>]
    /\ raising = [c \in Contexts |-> FALSE]
    /\ lastStored = [c \in Contexts |-> NoTenant]
    /\ last = [c \in Contexts |-> Op("init", NoTenant, NoTenant, FALSE)]
    /\ req = [c \in Contexts |-> [tenant |-> NoReq, prev |-> NoReq]]

InitViews ==
    /\ db = Table("User")
    /\ session = [c \in Contexts |-> AnonymousUser]
    /\ resp = NoResponse

Init == InitTenant /\ ev = NoEvaluation /\ InitViews

\* one check to evaluate, its principal and requirement drawn from the bounded sets
InitEval == InitTenant /\ IsEvalInput(ev) /\ InitViews

Next == \E c \in Contexts : ThreadStep(c)

Spec == Init /\ [][Next]_vars

\* one pooled worker serving one request after the other
NextRequest ==
    \/ \E t \in Tenants : RequestStart(Worker, t, AnonymousUser)
    \/ RequestEnd(Worker)
    \/ ThreadStep(Worker)

SpecRequest == Init /\ [][NextRequest]_vars

\* the checks of the mixins, each applied to every principal and requirement
NextEval ==
    \/ EvalTenantGetQueryset
    \/ EvalTenantGetObject
    \/ EvalHasPermission
    \/ EvalHasRolePermission
    \/ EvalRoleBasedHasPermission
    \/ EvalHasObjectPermission
    \/ EvalObjectDispatch
    \/ EvalPermissionDispatch
    \/ EvalRoleDispatch
    \/ EvalRoleBasedDispatch

SpecEval == InitEval /\ [][NextEval]_vars

\* the requests of one worker, served by the views; every model has its own table
InitRequests ==
    /\ InitTenant
    /\ ev = NoEvaluation
    /\ db \in {Table(m) : m \in Models}
    /\ session = [c \in Contexts |-> AnonymousUser]
    /\ resp = NoResponse

NextViews ==
    \/ \E t \in TenantValues, user \in RequestUsers : RequestStart(Worker, t, user)
    \/ ViewStep(Worker)
    \/ RequestEnd(Worker)

SpecViews == InitRequests /\ [][NextViews]_vars

(***************************************************************************)
(* User management: the admin actions of apps/users/views.py and the forms *)
(* of apps/users/forms.py, on a table of users                             *)
(***************************************************************************)
\* the password the views hand out, views.py lines 57 and 181
TempPassword == "TempPassword123!"

Emails == {"a@x.com", "A@x.com", "b@x.com"}

\* str.lower()
Lower(email) == IF email = "A@x.com" THEN "a@x.com" ELSE email

\* a row of users_user
UserRow(pk, tenant, email, role, is_superuser, is_active) ==
    [pk |-> pk, tenant |-> tenant, is_active |-> is_active, exists |-> TRUE,
     is_verified |-> FALSE, is_staff |-> FALSE, password |-> "secret",
     role |-> role, email |-> email, is_superuser |-> is_superuser]

\* a primary key not given out yet
NoUserRow(pk) ==
    [UserRow(pk, NoTenant, "", "", FALSE, FALSE) EXCEPT !.exists = FALSE, !.password = ""]

\* the tables a request finds: a teacher of T1, a second account -- of the same
\* tenant, of the other tenant, or a superuser without tenant -- and a free key
UserTables ==
    {[model |-> "User",
      rows |-> [pk \in Pks |->
                  CASE pk = 1 -> UserRow(1, "T1", "a@x.com", "teacher", FALSE, a)
                    [] pk = 2 -> second
                    [] OTHER -> NoUserRow(pk)]] :
        a \in BOOLEAN,
        second \in {UserRow(2, "T1", "b@x.com", "teacher", FALSE, TRUE),
                    UserRow(2, "T2", "a@x.com", "teacher", FALSE, TRUE),
                    UserRow(2, "T2", "b@x.com", "admin", FALSE, TRUE),
                    UserRow(2, NoTenant, "b@x.com", "super_admin", TRUE, TRUE)}}

ManagePerms == UserPerms \cup {"users.add_user"}

\* who sends the requests: staff of either tenant with and without the user
\* permissions, a superuser without tenant, and nobody logged in
UserManagers ==
    {AnonymousUser, User(TRUE, TRUE, "super_admin", {}, "u0", NoTenant, {})} \cup
    {User(TRUE, FALSE, "staff", perms, "u1", t, {}) :
        perms \in {{}, ManagePerms}, t \in Tenants}

\* get_object_or_404(User, pk=pk) without the tenant
get_object_or_404_anytenant(s, c, queryset, pk) == GetObject(queryset, pk)

\* get_object_or_404(User, pk=pk, tenant=get_current_tenant())
get_object_or_404(s, c, queryset, pk) ==
    GetObject({r \in queryset : r.tenant = get_current_tenant(s, c)}, pk)

Flags == {"is_active", "is_verified", "is_staff"}

\* user.<flag> = not user.<flag>; user.save()
Negate(rows, pk, flag) == [rows EXCEPT ![pk][flag] = ~@]

FlagOutcome(user, flag) ==
    IF user = Http404 THEN Outcome(NotFound, {}, {}, db.rows)
    ELSE Outcome(Ok, {user}, {user}, Negate(db.rows, user.pk, flag))

\* user.set_password(new_password); user.save()
PasswordOutcome(user) ==
    IF user = Http404 THEN Outcome(NotFound, {}, {}, db.rows)
    ELSE Outcome(Ok, {user}, {user}, [db.rows EXCEPT ![user.pk].password = TempPassword])

ToggleUserVerificationView(c, pk) ==
    Serve(c, "ToggleUserVerificationView", {"User"}, PermissionView("users.change_user"),
          FlagOutcome(get_object_or_404(store, c, AllObjects(db), pk), "is_verified"))

ToggleUserStaffView(c, pk) ==
    Serve(c, "ToggleUserStaffView", {"User"}, PermissionView("users.change_user"),
          FlagOutcome(get_object_or_404(store, c, AllObjects(db), pk), "is_staff"))

ResetUserPasswordView(c, pk) ==
    Serve(c, "ResetUserPasswordView", {"User"}, PermissionView("users.change_user"),
          PasswordOutcome(get_object_or_404(store, c, AllObjects(db), pk)))

Invalid == "Invalid"

\* the roles a POST can carry; ROLE_SUPER_ADMIN and ROLE_ADMIN are the privileged ones
PrivilegedRoles == {"super_admin", "admin"}
FormRoles == PrivilegedRoles \cup {"teacher"}

\* the first primary key not given out yet
NextPk(rows) == CHOOSE pk \in Pks : ~rows[pk].exists /\ \A k \in Pks : ~rows[k].exists => pk <= k

\* the other rows with this email, as the model's validate_unique looks them up
\* when the model declares email unique; apps/users/models.py is not part of
\* the sources, so uniqueEmail says whether it does
validate_unique(rows, uniqueEmail, instancePk, email) ==
    ~uniqueEmail \/ ~\E r \in AllObjects([rows |-> rows]) : r.pk # instancePk /\ r.email = email

\* the form is invalid and rendered again
InvalidOutcome == Outcome(Invalid, {}, {}, db.rows)

\* UserCreateView: the generated ModelForm of `fields`, then form_valid
UserCreateOutcome(s, c, email, role, uniqueEmail) ==
    IF ~validate_unique(db.rows, uniqueEmail, 0, email) THEN InvalidOutcome
    ELSE LET pk == NextPk(db.rows)
             user == [UserRow(pk, get_current_tenant(s, c), email, role, FALSE, TRUE)
                        EXCEPT !.password = TempPassword]
         IN  Outcome(Ok, {}, {user}, [db.rows EXCEPT ![pk] = user])

UserCreateView(c, email, role, uniqueEmail) ==
    /\ \E pk \in Pks : ~db.rows[pk].exists
    /\ Serve(c, "UserCreateView", {"User"}, PermissionView("users.add_user"),
             UserCreateOutcome(store, c, email, role, uniqueEmail))

\* UserUpdateView posting the role field: no tenant filter, the tenant is no field
UserUpdateRoleOutcome(obj, role) ==
    IF obj = Http404 THEN Outcome(NotFound, {}, {}, db.rows)
    ELSE Outcome(Ok, {obj}, {obj}, [db.rows EXCEPT ![obj.pk].role = role])

UserUpdateViewRole(c, pk, role) ==
    Serve(c, "UserUpdateView", {"User"}, PermissionView("users.change_user"),
          UserUpdateRoleOutcome(GetObject(AllObjects(db), pk), role))

\* TenantAwareUserCreationForm.__init__: the tenant field accepts this value
TenantAwareUserCreationForm_tenant_field(request_user, tenant) ==
    IF request_user.is_superuser THEN TRUE
    ELSE IF request_user.tenant # NoTenant THEN tenant = request_user.tenant
    ELSE tenant # NoTenant

\* __init__ of both forms: the role field accepts this value
TenantAwareUserForm_role_field(request_user, role) ==
    request_user.is_superuser \/ role \notin PrivilegedRoles

\* TenantAwareUserCreationForm.clean_email: the tenant field is cleaned after
\* the email field, so cleaned_data has no tenant yet and no filter is added
TenantAwareUserCreationForm_clean_email(rows, email) ==
    ~\E r \in AllObjects([rows |-> rows]) : r.email = email

\* TenantAwareUserCreationForm.clean: a new instance is no superuser
TenantAwareUserCreationForm_clean(tenant) == tenant # NoTenant

\* is_valid() and save() of TenantAwareUserCreationForm(data, request_user=...)
TenantAwareUserCreationForm_save(request_user, email, tenant, role, uniqueEmail) ==
    IF ~request_user.is_authenticated THEN Outcome(ServerError, {}, {}, db.rows)
    ELSE IF ~(/\ TenantAwareUserCreationForm_clean_email(db.rows, email)
              /\ TenantAwareUserCreationForm_tenant_field(request_user, tenant)
              /\ TenantAwareUserForm_role_field(request_user, role)
              /\ TenantAwareUserCreationForm_clean(tenant)
              /\ validate_unique(db.rows, uniqueEmail, 0, Lower(email)))
    THEN InvalidOutcome
    ELSE LET pk == NextPk(db.rows)
             user == UserRow(pk, tenant, Lower(email), role, FALSE, TRUE)
         IN  Outcome(Ok, {}, {user}, [db.rows EXCEPT ![pk] = user])

TenantAwareUserCreationForm(c, email, tenant, role, uniqueEmail) ==
    /\ \E pk \in Pks : ~db.rows[pk].exists
    /\ Serve(c, "TenantAwareUserCreationForm", {"User"}, [DefaultView EXCEPT !.mixins = {}],
             TenantAwareUserCreationForm_save(session[c], email, tenant, role, uniqueEmail))

\* TenantAwareUserChangeForm.__init__: the tenant field accepts this value
TenantAwareUserChangeForm_tenant_field(request_user, instance, tenant) ==
    IF request_user.is_superuser THEN tenant # NoTenant \/ instance.is_superuser
    ELSE tenant = request_user.tenant

\* TenantAwareUserChangeForm.clean_email: no tenant in cleaned_data yet, so the
\* users without tenant are searched
TenantAwareUserChangeForm_clean_email(rows, instance, email) ==
    ~\E r \in AllObjects([rows |-> rows]) :
        r.email = email /\ r.tenant = NoTenant /\ r.pk # instance.pk

\* TenantAwareUserChangeForm.clean, the current password given where it is asked
TenantAwareUserChangeForm_clean(instance, tenant) ==
    tenant # NoTenant \/ instance.is_superuser

\* is_valid() and save() of TenantAwareUserChangeForm(data, instance=..., request_user=...)
TenantAwareUserChangeForm_save(request_user, instance, email, tenant, role, uniqueEmail) ==
    IF instance = Http404 THEN Outcome(NotFound, {}, {}, db.rows)
    ELSE IF ~request_user.is_authenticated
            \/ (~request_user.is_superuser /\ request_user.tenant = NoTenant)
    THEN Outcome(ServerError, {}, {}, db.rows)
    ELSE IF ~(/\ TenantAwareUserChangeForm_clean_email(db.rows, instance, email)
              /\ TenantAwareUserChangeForm_tenant_field(request_user, instance, tenant)
              /\ TenantAwareUserForm_role_field(request_user, role)
              /\ TenantAwareUserChangeForm_clean(instance, tenant)
              /\ validate_unique(db.rows, uniqueEmail, instance.pk, Lower(email)))
    THEN InvalidOutcome
    ELSE Outcome(Ok, {instance}, {instance},
                 [db.rows EXCEPT ![instance.pk].email = Lower(email),
                                 ![instance.pk].tenant = tenant,
                                 ![instance.pk].role = role])

TenantAwareUserChangeForm(c, pk, email, tenant, role, uniqueEmail) ==
    Serve(c, "TenantAwareUserChangeForm", {"User"}, [DefaultView EXCEPT !.mixins = {}],
          TenantAwareUserChangeForm_save(session[c], GetObject(AllObjects(db), pk),
                                         email, tenant, role, uniqueEmail))

UserStep(c) ==
    \/ \E pk \in Pks : ToggleUserStatusView(c, pk)
    \/ \E pk \in Pks : ToggleUserVerificationView(c, pk)
    \/ \E pk \in Pks : ToggleUserStaffView(c, pk)
    \/ \E pk \in Pks : ResetUserPasswordView(c, pk)
    \/ \E email \in Emails, role \in FormRoles, uniqueEmail \in BOOLEAN :
          UserCreateView(c, email, role, uniqueEmail)
    \/ \E pk \in Pks, role \in FormRoles : UserUpdateViewRole(c, pk, role)
    \/ \E email \in Emails, tenant \in TenantValues, role \in FormRoles, uniqueEmail \in BOOLEAN :
          TenantAwareUserCreationForm(c, email, tenant, role, uniqueEmail)
    \/ \E pk \in Pks, email \in Emails, tenant \in TenantValues, role \in FormRoles,
          uniqueEmail \in BOOLEAN :
          TenantAwareUserChangeForm(c, pk, email, tenant, role, uniqueEmail)

InitUsers ==
    /\ InitTenant
    /\ ev = NoEvaluation
    /\ db \in UserTables
    /\ session = [c \in Contexts |-> AnonymousUser]
    /\ resp = NoResponse

\* one request of the worker on one of the tables
NextUsers ==
    \/ /\ req[Worker].prev = NoReq
       /\ \E t \in TenantValues, user \in UserManagers : RequestStart(Worker, t, user)
    \/ UserStep(Worker)
    \/ RequestEnd(Worker)

SpecUsers == InitUsers /\ [][NextUsers]_vars

(***************************************************************************)
(* Claims                                                                  *)
(***************************************************************************)

\* C2: when a tenant_context scope has been left, normally or by an exception and
\* whatever its body stored or cleared, get_current_tenant() returns what it
\* returned immediately before the scope was entered.
C2_ScopeRestoresPriorTenant ==
    \A c \in Contexts : last[c].op = "exit" => last[c].val = last[c].before

\* an inner scope left by an exception, back in an outer scope that had overridden T1
C2_Witness ==
    \E c \in Contexts :
        /\ last[c].op = "exit"
        /\ last[c].exc
        /\ last[c].val = "T1"
        /\ InBody(c)

\* C5: in every execution context get_current_tenant() returns the value that same
\* context stored last (None when it stored nothing or cleared), whatever the
\* other contexts store in between.
C5_ContextLocalStore ==
    \A c \in Contexts :
        /\ get_current_tenant(store, c) = lastStored[c]
        /\ last[c].op = "get" => last[c].val = lastStored[c]

\* c1 reads back its own T1 while c2 has stored T2 and is inside a scope
C5_Witness ==
    /\ last["c1"].op = "get"
    /\ last["c1"].val = "T1"
    /\ lastStored["c2"] = "T2"
    /\ InBody("c2")

\* C6: while a worker serves a request, outside the scopes the request itself has
\* opened, get_current_tenant() returns the tenant of that request, never the
\* tenant of an earlier request of the worker; after the teardown it returns None.
C6_NoLeakAcrossRequests ==
    \A c \in Contexts :
        /\ (req[c].tenant # NoReq /\ ~InBody(c)) => get_current_tenant(store, c) = req[c].tenant
        /\ last[c].op = "teardown" => last[c].val = NoTenant

\* the worker served T1, was torn down, and reads T2 back in the request for T2
C6_Witness ==
    /\ req[Worker].prev = "T1"
    /\ req[Worker].tenant = "T2"
    /\ last[Worker].op = "get"
    /\ last[Worker].val = "T2"
    /\ ~InBody(Worker)

\* the evaluation that has run is of one of these checks
Ran(fns) == ev.done /\ ev.fn \in fns

DecisionChecks ==
    {"has_permission", "has_role_permission", "RoleBasedViewMixin.has_permission"}

\* C3 as stated: every check lets every principal with is_superuser = true through,
\* whatever the requirement, the role, the permissions and the tenants.
C3_SuperuserAlwaysAllowed ==
    (ev.done /\ ev.user.is_superuser) =>
        CASE ev.fn \in DecisionChecks \cup {"has_object_permission"} -> ev.result = TRUE
          [] ev.fn = "TenantAccessMixin.get_queryset" -> ev.result = EvalRows
          [] ev.fn = "TenantAccessMixin.get_object" -> ev.result = ev.obj
          [] OTHER -> TRUE

\* C3 amended: an authenticated superuser passes has_permission, has_role_permission
\* and RoleBasedViewMixin.has_permission for every requirement; every superuser passes
\* has_object_permission; TenantAccessMixin lets a superuser through a tenant
\* mismatch when allow_superuser is true, and filters it by its own tenant when
\* allow_superuser is false.
C3_SuperuserBypass ==
    (ev.done /\ ev.user.is_superuser) =>
        CASE ev.fn \in DecisionChecks -> (ev.user.is_authenticated => ev.result = TRUE)
          [] ev.fn = "has_object_permission" -> ev.result = TRUE
          [] ev.fn = "TenantAccessMixin.get_queryset" ->
                ev.result = IF ev.view.allow_superuser THEN EvalRows
                            ELSE {r \in EvalRows : r.tenant = ev.user.tenant}
          [] ev.fn = "TenantAccessMixin.get_object" ->
                ev.result = IF ev.view.allow_superuser \/ ev.obj.tenant = ev.user.tenant
                            THEN ev.obj ELSE Http404
          [] OTHER -> TRUE

\* a superuser of T1 gets the rows of T2 and of no tenant as well
C3_Witness ==
    /\ Ran({"TenantAccessMixin.get_queryset"})
    /\ ev.user.is_superuser
    /\ ev.user.tenant = "T1"
    /\ ev.view.allow_superuser
    /\ \E r \in ev.result : r.tenant = "T2"

\* C4: under roles_required = X together with permission_required = Y, an
\* authenticated principal that is no superuser and whose role is not X is denied
\* although it holds Y.
C4_RoleCheckFirst ==
    ( /\ Ran({"RoleBasedViewMixin.has_permission"})
      /\ ev.user.is_authenticated
      /\ ~ev.user.is_superuser
      /\ ev.view.roles_required.kind = "str"
      /\ ev.view.roles_required.s # ""
      /\ ev.user.role # ev.view.roles_required.s
      /\ ev.view.permission_required.kind = "str"
      /\ ev.view.permission_required.s \in ev.user.perms )
    => ev.result = FALSE

\* staff holding view_x, denied by roles_required = "admin" with permission_required = "view_x"
C4_Witness ==
    /\ Ran({"RoleBasedViewMixin.has_permission"})
    /\ ev.user.is_authenticated
    /\ ~ev.user.is_superuser
    /\ ev.user.role = "staff"
    /\ ev.view.roles_required = PyStr("admin")
    /\ ev.view.permission_required = PyStr("view_x")
    /\ "view_x" \in ev.user.perms
    /\ ev.result = FALSE

C9_UnauthenticatedDenied ==
    (Ran({"has_permission", "has_role_permission"}) /\ ~ev.user.is_authenticated)
    => ev.result = FALSE

\* an unauthenticated principal with is_superuser = true, denied by has_permission
C9_Witness ==
    /\ Ran({"has_permission"})
    /\ ~ev.user.is_authenticated
    /\ ev.user.is_superuser
    /\ ev.view.permission_required = PyStr("view_x")
    /\ ev.result = FALSE

\* a view that declares min_role_level and no role set
OnlyMinRoleLevel(view) ==
    /\ ~Truthy(view.roles_required)
    /\ ~Truthy(view.roles_required_any)
    /\ view.min_role_level.kind = "int"

\* C10: under a minimum role level alone, an authenticated principal that is no
\* superuser is allowed iff the level of its role is at least the minimum; so a
\* principal whose role ranks at least as high as a role B is allowed whenever the
\* minimum is the level of B.
C10_MinRoleLevel ==
    ( /\ Ran({"has_role_permission"})
      /\ ev.user.is_authenticated
      /\ ~ev.user.is_superuser
      /\ OnlyMinRoleLevel(ev.view) )
    => /\ ev.result = (RoleLevel(ev.user.role) >= ev.view.min_role_level.n)
       /\ \A B \in EvalRoles :
            (ev.view.min_role_level.n = RoleLevel(B) /\ RoleLevel(ev.user.role) >= RoleLevel(B))
            => ev.result = TRUE

\* staff (level 4) passes min_role_level = 4, the level of its own role
C10_Witness ==
    /\ Ran({"has_role_permission"})
    /\ ev.user.is_authenticated
    /\ ~ev.user.is_superuser
    /\ OnlyMinRoleLevel(ev.view)
    /\ ev.user.role = "staff"
    /\ ev.view.min_role_level.n = RoleLevel("staff")
    /\ ev.result = TRUE

\* the request a view has just served on the worker: its principal and its tenant
Served(views) == resp.view \in views /\ resp.status = Ok
Principal == session[Worker]
CurrentTenant == get_current_tenant(store, Worker)

\* C1 as stated: a principal that is no superuser gets from UserListView and from
\* TenantAccessMixin.get_queryset no row whose tenant differs from get_current_tenant().
C1_ScopedToCurrentTenant ==
    (Served({"UserListView", "TenantAccessMixin.get_queryset"}) /\ ~Principal.is_superuser)
    => \A r \in resp.observed : r.tenant = CurrentTenant

\* C1 amended: UserListView returns no row whose tenant differs from
\* get_current_tenant(); TenantAccessMixin.get_queryset returns to a principal that is
\* no superuser no row whose tenant differs from the tenant of the principal; so a
\* principal of T1 served under the current tenant T1 gets from both exactly the
\* rows of T1.
C1_ScopedQueries ==
    /\ Served({"UserListView"}) => \A r \in resp.observed : r.tenant = CurrentTenant
    /\ (Served({"TenantAccessMixin.get_queryset"}) /\ ~Principal.is_superuser)
         => \A r \in resp.observed : r.tenant = Principal.tenant
    /\ ( /\ Served({"UserListView", "TenantAccessMixin.get_queryset"})
         /\ ~Principal.is_superuser
         /\ Principal.tenant = "T1"
         /\ CurrentTenant = "T1" )
         => resp.observed = {r \in AllObjects(db) : r.tenant = "T1"}

\* a staff principal of T1 lists the users under the tenant T1 while T2 has a user
\* too, and gets the user of T1 alone
C1_Witness ==
    /\ Served({"UserListView"})
    /\ ~Principal.is_superuser
    /\ Principal.tenant = "T1"
    /\ CurrentTenant = "T1"
    /\ db.rows[2].exists
    /\ resp.observed = {db.rows[1]}

\* C8: whatever requests have been served, what a principal that is no superuser has
\* been shown or has changed is of the tenant of that principal.
C8_TenantIsolation ==
    (resp # NoResponse /\ ~Principal.is_superuser)
    => \A r \in resp.observed \cup resp.mutated : r.tenant = Principal.tenant

\* the evaluation that has run is of a principal that is authenticated and no superuser
Ordinary(fns) == Ran(fns) /\ ev.user.is_authenticated /\ ~ev.user.is_superuser

\* C11: has_permission allows an authenticated principal that is no superuser, under
\* a list in permission_required, iff it holds every permission of the list, and
\* under a single name iff it holds that permission.
C11_AllListedPermissions ==
    Ordinary({"has_permission"}) =>
        /\ (ev.view.permission_required.kind = "list" /\ Len(ev.view.permission_required.l) > 0)
             => ev.result = (Range(ev.view.permission_required.l) \subseteq ev.user.perms)
        /\ (ev.view.permission_required.kind = "str" /\ ev.view.permission_required.s # "")
             => ev.result = (ev.view.permission_required.s \in ev.user.perms)

\* a principal holding view_x alone is denied by the list [view_x, change_x]
C11_Witness ==
    /\ Ordinary({"has_permission"})
    /\ ev.view.permission_required = PyList(<<"view_x", "change_x">>)
    /\ ev.user.perms = {"view_x"}
    /\ ev.result = FALSE

\* C12: when permission_required is declared the decision of has_permission is the
\* same whatever permission_required_any holds; when permission_required_any alone
\* is declared the principal is allowed iff it holds one of its permissions.
C12_AnyOnlyWithoutAll ==
    Ordinary({"has_permission"}) =>
        /\ Truthy(ev.view.permission_required) =>
             \A a \in PermissionRequiredAnyValues :
                ev.result = PermissionRequiredMixin_has_permission(
                                ev.user, [ev.view EXCEPT !.permission_required_any = a])
        /\ (~Truthy(ev.view.permission_required) /\ Truthy(ev.view.permission_required_any))
             => ev.result = (Range(ev.view.permission_required_any.l) \cap ev.user.perms # {})

\* a principal holding view_x alone is denied by permission_required = [view_x,
\* change_x] although permission_required_any = [view_x, change_x] is declared too
C12_Witness ==
    /\ Ordinary({"has_permission"})
    /\ ev.view.permission_required = PyList(<<"view_x", "change_x">>)
    /\ ev.view.permission_required_any = PyList(<<"view_x", "change_x">>)
    /\ ev.user.perms = {"view_x"}
    /\ ev.result = FALSE

\* a view that declares no requirement at all
NothingDeclared(view) ==
    /\ ~Truthy(view.permission_required)
    /\ ~Truthy(view.permission_required_any)
    /\ ~Truthy(view.roles_required)
    /\ ~Truthy(view.roles_required_any)
    /\ ~Truthy(view.min_role_level)

\* C13: when neither a role nor a permission requirement is declared, has_permission,
\* has_role_permission and RoleBasedViewMixin.has_permission allow every
\* authenticated principal and deny every unauthenticated one.
C13_DefaultAllow ==
    (Ran(DecisionChecks) /\ NothingDeclared(ev.view)) => ev.result = ev.user.is_authenticated

\* an authenticated visitor without permissions passes has_role_permission of a view
\* that declares nothing
C13_Witness ==
    /\ Ordinary({"has_role_permission"})
    /\ NothingDeclared(ev.view)
    /\ ev.user.role = "visitor"
    /\ ev.user.perms = {}
    /\ ev.result = TRUE

\* C14: when the tenant a scoped query filters on is None -- get_current_tenant() for
\* UserListView, the tenant of the principal for TenantAccessMixin.get_queryset -- a
\* principal that is no superuser is shown no row at all.
C14_EmptyTenantYieldsNothing ==
    /\ (Served({"UserListView"}) /\ ~Principal.is_superuser /\ CurrentTenant = NoTenant)
         => resp.observed = {}
    /\ ( /\ Served({"TenantAccessMixin.get_queryset"})
         /\ ~Principal.is_superuser
         /\ Principal.tenant = NoTenant )
         => resp.observed = {}

\* the principal of the evaluation is the owner of its object / holds the declared
\* object-level permission on it
IsOwner == ev.obj.user = ev.user.id \/ ev.obj.created_by = ev.user.id
IsGranted ==
    /\ Truthy(ev.view.object_permission_required)
    /\ <<ev.view.object_permission_required.s, ev.obj.pk>> \in ev.user.obj_perms

\* C15 as stated: has_object_permission allows iff the principal is a superuser, or
\* owns the object, or holds a matching object-level grant; so the owner is allowed
\* whether or not object_permission_required is declared.
C15_OwnerAlwaysAllowed ==
    Ran({"has_object_permission"}) =>
        ev.result = (ev.user.is_superuser \/ IsOwner \/ IsGranted)

\* C15 amended: has_object_permission allows iff the principal is a superuser, or
\* object_permission_required is declared and the principal holds that permission
\* on the object, or object_permission_required is not declared and the principal is
\* the user or the creator of the object.
C15_GrantOrElseOwner ==
    Ran({"has_object_permission"}) =>
        ev.result = \/ ev.user.is_superuser
                    \/ IsGranted
                    \/ ~Truthy(ev.view.object_permission_required) /\ IsOwner

\* the owner of an object is refused under object_permission_required = change_x,
\* which it does not hold on the object
C15_Witness ==
    /\ Ran({"has_object_permission"})
    /\ ~ev.user.is_superuser
    /\ ev.obj.user = ev.user.id
    /\ ev.view.object_permission_required = PyStr("change_x")
    /\ ev.user.obj_perms = {}
    /\ ev.result = FALSE

\* the worker's request, by a principal that is authenticated and no superuser, for
\* the existing row pk through a DetailView on TenantAccessMixin
GetsObject(pk) ==
    /\ \E b \in BOOLEAN : TenantAccessDetailView(Worker, pk, b)
    /\ Principal.is_authenticated
    /\ ~Principal.is_superuser
    /\ db.rows[pk].exists

\* C16 as stated, with the current tenant: TenantAccessMixin.get_object hands the
\* object to a principal that is no superuser iff the tenant of the object is
\* get_current_tenant(), and answers NotFound otherwise.
C16_ObjectOfCurrentTenant ==
    [][\A pk \in Pks :
         GetsObject(pk) =>
            IF db.rows[pk].tenant = CurrentTenant
            THEN resp'.status = Ok /\ resp'.observed = {db.rows[pk]}
            ELSE resp'.status = NotFound /\ resp'.observed = {}]_vars

\* C16 amended: TenantAccessMixin.get_object hands the object to a principal that is
\* no superuser iff the tenant of the object is the tenant of the principal
\* (request.user.tenant), and answers NotFound without the object otherwise.
C16_ObjectOfPrincipalTenant ==
    [][\A pk \in Pks :
         GetsObject(pk) =>
            IF db.rows[pk].tenant = Principal.tenant
            THEN resp'.status = Ok /\ resp'.observed = {db.rows[pk]}
            ELSE resp'.status = NotFound /\ resp'.observed = {}]_vars

\* a principal of T1 served under the current tenant T2 gets the object of T1
C16_Witness ==
    /\ Served({"TenantAccessMixin.get_object"})
    /\ ~Principal.is_superuser
    /\ Principal.tenant = "T1"
    /\ CurrentTenant = "T2"
    /\ resp.observed = {db.rows[1]}

\* C17 as stated: a list of two or more distinct roles in roles_required denies
\* every principal that is no superuser; roles_required_any alone allows iff the
\* role of the principal is in the list.
C17_RoleSetIsConjunction ==
    Ordinary({"has_role_permission"}) =>
        /\ ( /\ ev.view.roles_required.kind = "list"
             /\ Cardinality(Range(ev.view.roles_required.l)) >= 2 )
             => ev.result = FALSE
        /\ (~Truthy(ev.view.roles_required) /\ Truthy(ev.view.roles_required_any))
             => ev.result = (ev.user.role \in Range(ev.view.roles_required_any.l))

\* C17 amended: a list in roles_required is a membership test like roles_required_any:
\* has_role_permission allows iff the role of the principal is one of the listed
\* roles; a single name allows iff it is the role of the principal; and
\* roles_required_any, read when roles_required is not declared, allows iff the role
\* is in its list.
C17_RoleSetIsMembership ==
    Ordinary({"has_role_permission"}) =>
        /\ (ev.view.roles_required.kind = "list" /\ Len(ev.view.roles_required.l) > 0)
             => ev.result = (ev.user.role \in Range(ev.view.roles_required.l))
        /\ (ev.view.roles_required.kind = "str" /\ ev.view.roles_required.s # "")
             => ev.result = (ev.user.role = ev.view.roles_required.s)
        /\ (~Truthy(ev.view.roles_required) /\ Truthy(ev.view.roles_required_any))
             => ev.result = (ev.user.role \in Range(ev.view.roles_required_any.l))

\* an admin passes roles_required = [admin, staff]
C17_Witness ==
    /\ Ordinary({"has_role_permission"})
    /\ ev.view.roles_required = PyList(<<"admin", "staff">>)
    /\ ev.user.role = "admin"
    /\ ev.result = TRUE

\* C18: get_current_tenant() has a value in every state of every context: None where
\* the context holds nothing, the value the context stored last otherwise; and the
\* value a call has returned is still what the store of the context holds.
C18_GetCurrentTenant ==
    \A c \in Contexts :
        /\ get_current_tenant(store, c) \in TenantValues
        /\ store[c] = Unset => get_current_tenant(store, c) = NoTenant
        /\ store[c] # Unset => get_current_tenant(store, c) = lastStored[c]
        /\ last[c].op = "get" => last[c].val = get_current_tenant(store, c)

\* c2, which holds nothing, reads None while c1 holds T1
C18_Witness ==
    /\ last["c2"].op = "get"
    /\ last["c2"].val = NoTenant
    /\ store["c2"] = Unset
    /\ store["c1"] = "T1"

\* C19: in every state clear_tenant() leaves get_current_tenant() returning None,
\* changes nothing when the context holds nothing, has the same effect called twice
\* as called once, and leaves the other contexts alone.
C19_ClearTenant ==
    \A c \in Contexts :
        /\ get_current_tenant(clear_tenant(store, c), c) = NoTenant
        /\ store[c] = Unset => clear_tenant(store, c) = store
        /\ clear_tenant(clear_tenant(store, c), c) = clear_tenant(store, c)
        /\ \A d \in Contexts \ {c} : clear_tenant(store, c)[d] = store[d]
        /\ last[c].op = "clear" => (last[c].val = NoTenant /\ store[c] = Unset)

\* c1 has cleared its tenant inside a scope while c2 keeps T2
C19_Witness ==
    /\ last["c1"].op = "clear"
    /\ store["c1"] = Unset
    /\ InBody("c1")
    /\ store["c2"] = "T2"

\* the dispatch that has run, and the decision of the check of its mixin
Dispatches ==
    {"PermissionRequiredMixin.dispatch", "RoleRequiredMixin.dispatch",
     "RoleBasedViewMixin.dispatch"}
CheckAllows ==
    CASE ev.fn = "PermissionRequiredMixin.dispatch" ->
            PermissionRequiredMixin_has_permission(ev.user, ev.view)
      [] ev.fn = "RoleRequiredMixin.dispatch" ->
            RoleRequiredMixin_has_role_permission(ev.user, ev.view)
      [] ev.fn = "RoleBasedViewMixin.dispatch" ->
            RoleBasedViewMixin_has_permission(ev.user, ev.view)
      [] OTHER -> FALSE

\* C20: a dispatch through PermissionRequiredMixin, RoleRequiredMixin or
\* RoleBasedViewMixin reaches the handler (super().dispatch) only when the check of
\* the mixin has allowed; when the check fails the request ends in PermissionDenied
\* or in the redirect to the login page and the handler is not invoked.
C20_HandlerOnlyAfterAllow ==
    Ran(Dispatches) =>
        /\ ev.result = Handler => CheckAllows
        /\ ~CheckAllows => ev.result \in {Forbidden, LoginRedirect}

\* an unauthenticated request to a RoleRequiredMixin view that keeps raise_exception
\* False is redirected to the login page
C20_Witness ==
    /\ Ran({"RoleRequiredMixin.dispatch"})
    /\ ~ev.user.is_authenticated
    /\ ~ev.view.raise_exception
    /\ ev.view.roles_required = PyStr("admin")
    /\ ev.result = LoginRedirect

\* C21: a check of the mixins, whether it allows or denies, leaves the principal, the
\* object, the declared requirement, the rows of the tables, the session and the
\* tenant store as they were.
C21_EvaluatorIsReadOnly ==
    [][(~ev.done /\ ev'.done) =>
          /\ ev'.user = ev.user
          /\ ev'.obj = ev.obj
          /\ ev'.view = ev.view
          /\ UNCHANGED <<store, frames, lastStored, db, session>>]_vars

\* has_permission has denied a principal that holds view_x, and the principal still
\* holds it
C21_Witness ==
    /\ Ordinary({"has_permission"})
    /\ ev.view.permission_required = PyList(<<"view_x", "change_x">>)
    /\ ev.user.perms = {"view_x"}
    /\ ev.result = FALSE
    /\ db = Table("User")

\* the dispatch of a mixin under the raise_exception its class declares: True in
\* PermissionRequiredMixin (line 14), AccessMixin's False in RoleRequiredMixin
DeniedByClassDefault ==
    /\ Ran({"PermissionRequiredMixin.dispatch", "RoleRequiredMixin.dispatch"})
    /\ ev.view.raise_exception = (ev.fn = "PermissionRequiredMixin.dispatch")
    /\ ~CheckAllows

\* C22 as stated: both dispatches answer the denial of an unauthenticated principal
\* with the redirect to the login page and the denial of an authenticated one with
\* Forbidden.
C22_DenialsClassified ==
    DeniedByClassDefault =>
        ev.result = IF ev.user.is_authenticated THEN Forbidden ELSE LoginRedirect

\* C22 amended: a denial is answered with the redirect to the login page only when
\* the principal is unauthenticated and raise_exception is False, with Forbidden
\* otherwise; so RoleRequiredMixin tells the two apart and PermissionRequiredMixin,
\* which sets raise_exception = True, answers every denial with Forbidden.
C22_DenialsByRaiseException ==
    /\ (Ran({"PermissionRequiredMixin.dispatch", "RoleRequiredMixin.dispatch"}) /\ ~CheckAllows)
         => ev.result = IF ~ev.user.is_authenticated /\ ~ev.view.raise_exception
                        THEN LoginRedirect ELSE Forbidden
    /\ (DeniedByClassDefault /\ ev.fn = "PermissionRequiredMixin.dispatch")
         => ev.result = Forbidden
    /\ (DeniedByClassDefault /\ ev.fn = "RoleRequiredMixin.dispatch")
         => ev.result = IF ev.user.is_authenticated THEN Forbidden ELSE LoginRedirect

\* an unauthenticated request is answered with Forbidden by PermissionRequiredMixin
C22_Witness ==
    /\ DeniedByClassDefault
    /\ ev.fn = "PermissionRequiredMixin.dispatch"
    /\ ~ev.user.is_authenticated
    /\ ev.result = Forbidden

\* C23: TenantAccessMixin.get_queryset returns every row only to a superuser on a view
\* whose allow_superuser is true; a superuser under allow_superuser = False and every
\* other principal, whatever allow_superuser is, get the rows of their own tenant.
C23_AllTenantsIsOptIn ==
    Ran({"TenantAccessMixin.get_queryset"}) =>
        /\ ev.result = EvalRows <=> (ev.user.is_superuser /\ ev.view.allow_superuser)
        /\ ~(ev.user.is_superuser /\ ev.view.allow_superuser)
             => ev.result = {r \in EvalRows : r.tenant = ev.user.tenant}

\* a superuser of T1 under allow_superuser = False gets the row of T1 alone
C23_Witness ==
    /\ Ran({"TenantAccessMixin.get_queryset"})
    /\ ev.user.is_superuser
    /\ ~ev.view.allow_superuser
    /\ ev.user.tenant = "T1"
    /\ ev.result = {r \in EvalRows : r.tenant = "T1"}

\* C29: nested tenant_context scopes restore in the reverse order of their entry:
\* right after an entry get_current_tenant() returns the tenant of that scope, every
\* open scope remembers the value that was current at its own entry, and right after
\* an exit, normal or by an exception, get_current_tenant() returns the value that
\* was current when the scope left was entered -- the tenant of the enclosing scope
\* for an inner scope, the pre-existing value for the outermost.
C29_NestedScopesLifo ==
    \A c \in Contexts :
        /\ last[c].op = "enter" =>
              (InBody(c) /\ get_current_tenant(store, c) = last[c].before)
        /\ \A i \in 1..Len(frames[c]) : frames[c][i].old_tenant = frames[c][i].before
        /\ last[c].op = "exit" => get_current_tenant(store, c) = last[c].before

\* T2 was current; inside tenant_context(T1) an inner scope has been left normally
\* and get_current_tenant() returns T1 again
C29_Witness ==
    /\ Len(frames["c1"]) = 1
    /\ Head(frames["c1"]).before = "T2"
    /\ last["c1"].op = "exit"
    /\ ~last["c1"].exc
    /\ get_current_tenant(store, "c1") = "T1"

\* C30: in has_role_permission one form of the role requirement decides: a declared
\* roles_required whatever roles_required_any and min_role_level hold, else a declared
\* roles_required_any whatever min_role_level holds, else min_role_level; a role that
\* ROLE_HIERARCHY does not list has level 0 and is denied by every positive minimum.
C30_OneRoleFormDecides ==
    Ordinary({"has_role_permission"}) =>
        /\ Truthy(ev.view.roles_required) =>
             \A a \in RolesRequiredAnyValues, m \in MinRoleLevelValues :
                ev.result = RoleRequiredMixin_has_role_permission(
                                ev.user, [ev.view EXCEPT !.roles_required_any = a,
                                                         !.min_role_level = m])
        /\ (~Truthy(ev.view.roles_required) /\ Truthy(ev.view.roles_required_any)) =>
             /\ ev.result = (ev.user.role \in Range(ev.view.roles_required_any.l))
             /\ \A m \in MinRoleLevelValues :
                   ev.result = RoleRequiredMixin_has_role_permission(
                                   ev.user, [ev.view EXCEPT !.min_role_level = m])
        /\ (OnlyMinRoleLevel(ev.view) /\ ev.user.role \notin DOMAIN ROLE_HIERARCHY) =>
             /\ RoleLevel(ev.user.role) = 0
             /\ ev.view.min_role_level.n > 0 => ev.result = FALSE

\* staff is denied by roles_required = "admin" although roles_required_any lists
\* staff and min_role_level = 1 is below the level of staff
C30_Witness ==
    /\ Ordinary({"has_role_permission"})
    /\ ev.user.role = "staff"
    /\ ev.view.roles_required = PyStr("admin")
    /\ ev.view.roles_required_any = PyList(<<"staff", "teacher">>)
    /\ ev.view.min_role_level = PyInt(1)
    /\ ev.result = FALSE

\* the worker's request has got past the permission check of the view
Admitted == resp'.status \in {Ok, NotFound}

\* the row pk is a user of the current tenant
OfCurrentTenant(pk) == db.rows[pk].exists /\ db.rows[pk].tenant = CurrentTenant

ToggleStep(flag, pk) ==
    CASE flag = "is_active" -> ToggleUserStatusView(Worker, pk)
      [] flag = "is_verified" -> ToggleUserVerificationView(Worker, pk)
      [] flag = "is_staff" -> ToggleUserStaffView(Worker, pk)

\* what the three toggle views do to the user pk
TogglesScoped(pk) ==
    \A flag \in Flags :
        (ToggleStep(flag, pk) /\ Admitted) =>
            IF OfCurrentTenant(pk)
            THEN /\ resp'.status = Ok
                 /\ db'.rows = Negate(db.rows, pk, flag)
                 /\ Negate(db'.rows, pk, flag) = db.rows
            ELSE resp'.status = NotFound /\ db' = db

\* C28 as stated: the toggle views and the password reset change a user only when its
\* tenant is get_current_tenant() and answer NotFound without any change otherwise;
\* on success each of the four negates exactly one flag of that user, so that doing
\* it twice restores the user.
C28_EveryActionNegatesOneFlag ==
    [][\A pk \in Pks :
         /\ TogglesScoped(pk)
         /\ (ResetUserPasswordView(Worker, pk) /\ Admitted) =>
               IF OfCurrentTenant(pk)
               THEN /\ resp'.status = Ok
                    /\ \E flag \in Flags : db'.rows = Negate(db.rows, pk, flag)
               ELSE resp'.status = NotFound /\ db' = db]_vars

\* C28 amended: the same scoping for all four views; the three toggle views negate
\* exactly their one flag of that user, so that two toggles restore it; the password
\* reset negates nothing: it sets the password of that user to the fixed temporary
\* password, whatever it was.
C28_TogglesScopedToCurrentTenant ==
    [][\A pk \in Pks :
         /\ TogglesScoped(pk)
         /\ (ResetUserPasswordView(Worker, pk) /\ Admitted) =>
               IF OfCurrentTenant(pk)
               THEN /\ resp'.status = Ok
                    /\ db'.rows = [db.rows EXCEPT ![pk].password = TempPassword]
               ELSE resp'.status = NotFound /\ db' = db]_vars

\* under the current tenant T1 the user of T1 has been verified, the user of T2 is
\* as it was
C28_Witness ==
    /\ Served({"ToggleUserVerificationView"})
    /\ CurrentTenant = "T1"
    /\ db.rows[1].is_verified
    /\ db.rows[2].tenant = "T2"
    /\ ~db.rows[2].is_verified

\* the step is a save of one of the two user forms
FormStep ==
    /\ resp = NoResponse
    /\ resp'.view \in {"TenantAwareUserCreationForm", "TenantAwareUserChangeForm"}

\* the row pk is a user before and after the step
Stays(pk) == db.rows[pk].exists /\ db'.rows[pk].exists

\* the row pk is a user created by the step
Created(pk) == ~db.rows[pk].exists /\ db'.rows[pk].exists

\* C24: whatever a principal that is no superuser does -- UserUpdateView,
\* TenantAwareUserChangeForm, the toggle and reset views -- the tenant of a user that
\* exists stays what it was.
C24_TenantNeverReassigned ==
    [][~Principal.is_superuser =>
         \A pk \in Pks : Stays(pk) => db'.rows[pk].tenant = db.rows[pk].tenant]_vars

\* C25: every user that is stored and is no superuser has a tenant.
C25_NonSuperuserHasTenant ==
    \A pk \in Pks :
        (db.rows[pk].exists /\ ~db.rows[pk].is_superuser) => db.rows[pk].tenant # NoTenant

\* no two users of one tenant are stored with the same email
EmailUniquePerTenant(rows) ==
    \A p, q \in Pks :
        (/\ p # q
         /\ rows[p].exists /\ rows[q].exists
         /\ rows[p].tenant \in Tenants
         /\ rows[p].tenant = rows[q].tenant) => rows[p].email # rows[q].email

C27_NoPrivilegedRoleNoForeignTenant ==
    [][~Principal.is_superuser =>
         \A pk \in Pks :
            /\ (Created(pk) \/ (Stays(pk) /\ db'.rows[pk].role # db.rows[pk].role)) =>
                   db'.rows[pk].role \notin PrivilegedRoles
            /\ Created(pk) => db'.rows[pk].tenant = Principal.tenant]_vars

====
